---- MODULE Spec2Model ----
(***************************************************************************)
(* A model of HiveToVW.py: the HiveToVWInput job (constructor, namespace   *)
(* grouping, column encoding, create_dest_table, gen_sql, run) and the     *)
(* HiveCliHook.run_cli subprocess wrapper.                                 *)
(*                                                                         *)
(* Text is modelled as sequences of one-character strings, so that         *)
(* str.split, concatenation and formatting are computed, not assumed.      *)
(***************************************************************************)
EXTENDS Integers, Sequences, FiniteSets, TLC

VARIABLES
    \* ---- HiveToVWInput (a job) and the thread that constructs and runs it
    pc,          \* position of the caller's thread of control
    job,         \* the fields __init__ assigns (NoJob before that)
    nsgroups,    \* self.nsgroups
    metaCalls,   \* calls made to the metastore (schema collaborator)
    spawns,      \* subprocesses spawned since the job's run() started
    output,      \* the local `output` of create_dest_table / run
    raised,      \* the exception that left __init__ / run ("none" if none)
    errLog,      \* what the job's own code logged at error level
    ctor_args,   \* the arguments of the __init__ call
    exits,       \* exit codes of the subprocesses of this run() (history)
    run_ret,     \* what run() returned to its caller
    \* ---- HiveCliHook.run_cli
    rc_pc,       \* position inside run_cli
    rc_args,     \* [hql, schema, verbose, hive_conf] of the call in progress
    tmpfile,     \* the NamedTemporaryFile: [exists, content]
    proc,        \* the hive subprocess: "none" | "running" | "exited"
    returncode,  \* sp.returncode
    pipe,        \* bytes written by the subprocess and not yet read
    emitted,     \* every byte the subprocess wrote (history)
    stdout,      \* the local `stdout` accumulated by the read loop
    infoLog,     \* lines logged at info level by the read loop
    rcErrLog,    \* what run_cli logged at error level
    rc_result,   \* what left run_cli: [kind |-> "return", value] or [kind |-> "raise", exc]
    \* ---- get_ns_groups taken alone
    g_pc, g_in, g_out,
    \* ---- __col_sql taken alone
    e_pc, e_in, e_rule, e_token

pipeVars == <<pc, job, nsgroups, metaCalls, spawns, output, raised, errLog, ctor_args,
              exits, run_ret>>
cliVars  == <<rc_pc, rc_args, tmpfile, proc, returncode, pipe, emitted, stdout,
              infoLog, rcErrLog, rc_result>>
grpVars  == <<g_pc, g_in, g_out>>
encVars  == <<e_pc, e_in, e_rule, e_token>>
vars     == <<pipeVars, cliVars, grpVars, encVars>>

-----------------------------------------------------------------------------
(* Text helpers *)

\* the sequences over S of length 0..n
SeqsUpTo(S, n) == UNION {[1..k -> S] : k \in 0..n}

\* s[i..] starts with sep
StartsAt(s, i, sep) ==
    /\ i + Len(sep) - 1 <= Len(s)
    /\ \A k \in 1..Len(sep) : s[i + k - 1] = sep[k]

\* index of the first occurrence of sep in s, 0 if none
Find(s, sep) ==
    LET hits == {i \in 1..Len(s) : StartsAt(s, i, sep)}
    IN  IF hits = {} THEN 0 ELSE CHOOSE i \in hits : \A j \in hits : i <= j

\* Python's s.split(sep): left to right, non-overlapping
RECURSIVE Split(_, _)
Split(s, sep) ==
    LET i == Find(s, sep)
    IN  IF i = 0 THEN <<s>>
        ELSE <<SubSeq(s, 1, i - 1)>> \o Split(SubSeq(s, i + Len(sep), Len(s)), sep)

\* x in a Python list
InList(x, l) == \E i \in 1..Len(l) : l[i] = x

\* a Python dict as a function; d.get(k, dflt) and d[k] = v
EmptyDict == <<>>
DictGet(d, k, dflt) == IF k \in DOMAIN d THEN d[k] ELSE dflt
DictSet(d, k, v) == [x \in (DOMAIN d) \cup {k} |-> IF x = k THEN v ELSE d[x]]

Dunder == <<"_", "_">>
Dot    == <<".">>
Other  == <<"o", "t", "h", "e", "r">>

-----------------------------------------------------------------------------
(* HiveToVWInput.get_ns_groups, lines 153-167: the loop over the schema *)

\* one iteration of the loop body, for column c = [name, type]
NsStepOverrideLast(groups, c, excludes, label, tag, custom) ==
    IF InList(c.name, excludes \o <<label, tag>>) THEN groups
    ELSE IF Len(Split(c.name, Dunder)) > 2
         THEN LET ns == Split(c.name, Dunder)[2]
              IN  DictSet(groups, ns, DictGet(groups, ns, <<>>) \o <<c>>)
    ELSE IF c.name \in DOMAIN custom
         THEN DictSet(groups, custom[c.name],
                      DictGet(groups, custom[c.name], <<>>) \o <<c>>)
    ELSE DictSet(groups, Other, DictGet(groups, Other, <<>>) \o <<c>>)

\* a loop body that assigns instead of appending
NsStepOverwrite(groups, c, excludes, label, tag, custom) ==
    IF InList(c.name, excludes \o <<label, tag>>) THEN groups
    ELSE IF c.name \in DOMAIN custom
         THEN DictSet(groups, custom[c.name], <<c>>)
    ELSE IF Len(Split(c.name, Dunder)) > 2
         THEN DictSet(groups, Split(c.name, Dunder)[2], <<c>>)
    ELSE DictSet(groups, Other, <<c>>)

NsStep(groups, c, excludes, label, tag, custom) ==
    IF InList(c.name, excludes \o <<label, tag>>) THEN groups
    ELSE IF c.name \in DOMAIN custom
         THEN DictSet(groups, custom[c.name],
                      DictGet(groups, custom[c.name], <<>>) \o <<c>>)
    ELSE IF Len(Split(c.name, Dunder)) > 2
         THEN LET ns == Split(c.name, Dunder)[2]
              IN  DictSet(groups, ns, DictGet(groups, ns, <<>>) \o <<c>>)
    ELSE DictSet(groups, Other, DictGet(groups, Other, <<>>) \o <<c>>)

RECURSIVE NsLoop(_, _, _, _, _, _)
NsLoop(groups, cols, excludes, label, tag, custom) ==
    IF cols = <<>> THEN groups
    ELSE NsLoop(NsStep(groups, Head(cols), excludes, label, tag, custom),
                Tail(cols), excludes, label, tag, custom)

GetNsGroups(cols, excludes, label, tag, custom) ==
    NsLoop(EmptyDict, cols, excludes, label, tag, custom)

-----------------------------------------------------------------------------
(* get_ns_groups taken alone: the inputs are drawn in the initial state    *)
(* and one action applies the function.                                    *)

MaxCols == 2

N_a      == <<"a">>
N_y      == <<"y">>
N_t      == <<"t">>
N_agb    == <<"a", "_", "_", "g", "_", "_", "b">>
N_ab     == <<"a", "_", "_", "b">>
N_a4b    == <<"a", "_", "_", "_", "_", "b">>
N_a3gb   == <<"a", "_", "_", "_", "g", "_", "_", "b">>
N_aotherb == <<"a", "_", "_">> \o Other \o <<"_", "_", "b">>
NS_g     == <<"g">>
NS_fam   == <<"f", "a", "m">>

ColNames == {N_a, N_y, N_t, N_agb, N_ab, N_a4b, N_a3gb, N_aotherb}
GroupCols == [name : ColNames, type : {"int"}] \cup {[name |-> N_a, type |-> "string"]}

GroupLabels   == {N_y, N_agb}
GroupTags     == {N_t, N_y}
GroupExcludes == {<<>>, <<N_a>>, <<N_agb, N_ab>>}
GroupCustoms  ==
    { EmptyDict,
      (N_a :> NS_fam),
      (N_agb :> NS_fam) @@ (N_y :> NS_fam),
      (N_agb :> NS_g) @@ (N_a :> Other) @@ (N_a4b :> NS_fam) }

GrpParked == g_pc = "parked" /\ g_in = <<>> /\ g_out = <<>>

GrpInit ==
    /\ g_pc = "input"
    /\ g_in \in [cols : SeqsUpTo(GroupCols, MaxCols), excludes : GroupExcludes,
                 label : GroupLabels, tag : GroupTags, custom : GroupCustoms]
    /\ g_out = <<>>

GroupCall ==
    /\ g_pc = "input"
    /\ g_out' = GetNsGroups(g_in.cols, g_in.excludes, g_in.label, g_in.tag, g_in.custom)
    /\ g_pc' = "done"
    /\ UNCHANGED g_in

-----------------------------------------------------------------------------
(* HiveToVWInput.__col_sql, lines 169-182.  The SQL text is modelled as    *)
(* its expression tree; Eval gives the value Hive computes for it on a row *)
(* whose column holds `row`.  Doubles are fixed-point thousandths.         *)

Null       == [t |-> "null"]
DoubleV(m) == [t |-> "double", v |-> m]
IntV(n)    == [t |-> "int", v |-> n]
BoolV(b)   == [t |-> "boolean", v |-> b]
StrV(s)    == [t |-> "string", v |-> s]

Col(c)            == [op |-> "col", name |-> c]
Lit(val)          == [op |-> "lit", val |-> val]
Cast(e, ty)       == [op |-> "cast", arg |-> e, ty |-> ty]
Coalesce(e, d)    == [op |-> "coalesce", arg |-> e, dflt |-> d]
Eq(a, b)          == [op |-> "eq", lhs |-> a, rhs |-> b]
CaseWhen(c, x, y) == [op |-> "case", cond |-> c, then |-> x, else |-> y]
Concat(args)      == [op |-> "concat", args |-> args]
Printf(fmt, e)    == [op |-> "printf", fmt |-> fmt, arg |-> e]
RegexpReplace(e, class) == [op |-> "regexp_replace", arg |-> e, class |-> class]

\* members of the character class of line 180 (quote, backslash and backquote,
\* which are in it too, are left out of the sample)
\* [\x00-\x2a|\x2c|\x2f|\x3a-\x40|\x5b-\x5e|\x60|\x7b-\x7f]
DenyClass ==
    {"\t", "\n", " ", "!", "#", "$", "%", "&", "'", "(", ")", "*", ",", "/",
     ":", ";", "<", "=", ">", "?", "@", "[", "]", "^", "{", "|", "}", "~"}

\* a raised exception, where a value was expected
Raise(exc) == [op |-> "raise", exc |-> exc]
NotImplementedError == Raise("NotImplementedError")

\* a double branch that substitutes 1.0 for NULL
ColSqlNullAsOne(colname, coltype) ==
    IF coltype = "double"
    THEN CaseWhen(Eq(Coalesce(Cast(Col(colname), "double"), Lit(DoubleV(1000))),
                     Lit(DoubleV(0))),
                  Lit(StrV(<<>>)),
                  Concat(<<Lit(StrV(colname \o <<":">>)), Printf("%.2f", Col(colname)),
                           Lit(StrV(<<" ">>))>>))
    ELSE IF coltype \in {"bigint", "int"}
    THEN CaseWhen(Eq(Coalesce(Col(colname), Lit(IntV(0))), Lit(IntV(0))),
                  Lit(StrV(<<>>)),
                  Concat(<<Lit(StrV(colname \o <<":">>)), Printf("%d", Col(colname)),
                           Lit(StrV(<<" ">>))>>))
    ELSE IF coltype \in {"boolean"}
    THEN CaseWhen(Eq(Coalesce(Cast(Col(colname), "int"), Lit(IntV(0))), Lit(IntV(0))),
                  Lit(StrV(<<>>)),
                  Concat(<<Lit(StrV(colname \o <<":">>)),
                           Printf("%d", Cast(Col(colname), "int")),
                           Lit(StrV(<<" ">>))>>))
    ELSE IF coltype = "string"
    THEN CaseWhen(Eq(Coalesce(Col(colname), Lit(StrV(<<>>))), Lit(StrV(<<>>))),
                  Lit(StrV(<<>>)),
                  Concat(<<RegexpReplace(Col(colname), DenyClass), Lit(StrV(<<" ">>))>>))
    ELSE NotImplementedError

ColSql(colname, coltype) ==
    IF coltype = "double"
    THEN CaseWhen(Eq(Coalesce(Cast(Col(colname), "double"), Lit(DoubleV(0))),
                     Lit(DoubleV(0))),
                  Lit(StrV(<<>>)),
                  Concat(<<Lit(StrV(colname \o <<":">>)), Printf("%.2f", Col(colname)),
                           Lit(StrV(<<" ">>))>>))
    ELSE IF coltype \in {"bigint", "int"}
    THEN CaseWhen(Eq(Coalesce(Col(colname), Lit(IntV(0))), Lit(IntV(0))),
                  Lit(StrV(<<>>)),
                  Concat(<<Lit(StrV(colname \o <<":">>)), Printf("%d", Col(colname)),
                           Lit(StrV(<<" ">>))>>))
    ELSE IF coltype \in {"boolean"}
    THEN CaseWhen(Eq(Coalesce(Cast(Col(colname), "int"), Lit(IntV(0))), Lit(IntV(0))),
                  Lit(StrV(<<>>)),
                  Concat(<<Lit(StrV(colname \o <<":">>)),
                           Printf("%d", Cast(Col(colname), "int")),
                           Lit(StrV(<<" ">>))>>))
    ELSE IF coltype = "string"
    THEN CaseWhen(Eq(Coalesce(Col(colname), Lit(StrV(<<>>))), Lit(StrV(<<>>))),
                  Lit(StrV(<<>>)),
                  Concat(<<RegexpReplace(Col(colname), DenyClass), Lit(StrV(<<" ">>))>>))
    ELSE NotImplementedError

Raises(x) == x.op = "raise"

(* What the engine computes for the expressions of lines 172-180. *)

DigitChar(d) == <<"0", "1", "2", "3", "4", "5", "6", "7", "8", "9">>[d + 1]

RECURSIVE Digits(_)
Digits(n) == IF n < 10 THEN <<DigitChar(n)>> ELSE Digits(n \div 10) \o <<DigitChar(n % 10)>>

Abs(n) == IF n < 0 THEN 0 - n ELSE n

\* PRINTF('%d', n)
FormatD(n) == (IF n < 0 THEN <<"-">> ELSE <<>>) \o Digits(Abs(n))

\* PRINTF('%.2f', m/1000): two decimals, rounded half up in magnitude
FormatF2(m) ==
    LET h == (Abs(m) + 5) \div 10
    IN  (IF m < 0 THEN <<"-">> ELSE <<>>) \o Digits(h \div 100) \o <<".">>
        \o <<DigitChar((h \div 10) % 10), DigitChar(h % 10)>>

\* a numeric value in thousandths, for comparison across int and double
Milli(val) == IF val.t = "double" THEN val.v ELSE val.v * 1000

CastVal(val, ty) ==
    IF val.t = "null" THEN Null
    ELSE IF ty = "double"
         THEN (IF val.t = "double" THEN val ELSE DoubleV(Milli(val)))
    ELSE \* ty = "int"
         IF val.t = "boolean" THEN IntV(IF val.v THEN 1 ELSE 0)
         ELSE IF val.t = "double"
              THEN IntV((IF val.v < 0 THEN -1 ELSE 1) * (Abs(val.v) \div 1000))
         ELSE val

EqVal(a, b) ==
    IF a.t = "null" \/ b.t = "null" THEN Null
    ELSE IF a.t = "string" \/ b.t = "string" THEN BoolV(a = b)
    ELSE BoolV(Milli(a) = Milli(b))

RECURSIVE ConcatVals(_)
ConcatVals(vals) ==
    IF vals = <<>> THEN StrV(<<>>)
    ELSE LET rest == ConcatVals(Tail(vals))
         IN  IF Head(vals).t = "null" \/ rest.t = "null" THEN Null
             ELSE StrV(Head(vals).v \o rest.v)

RECURSIVE Eval(_, _)
Eval(e, row) ==
    CASE e.op = "col" -> row
      [] e.op = "lit" -> e.val
      [] e.op = "cast" -> CastVal(Eval(e.arg, row), e.ty)
      [] e.op = "coalesce" ->
            LET x == Eval(e.arg, row) IN IF x.t = "null" THEN Eval(e.dflt, row) ELSE x
      [] e.op = "eq" -> EqVal(Eval(e.lhs, row), Eval(e.rhs, row))
      [] e.op = "case" ->
            IF Eval(e.cond, row) = BoolV(TRUE) THEN Eval(e.then, row) ELSE Eval(e.else, row)
      [] e.op = "concat" ->
            ConcatVals([i \in 1..Len(e.args) |-> Eval(e.args[i], row)])
      [] e.op = "printf" ->
            LET x == Eval(e.arg, row)
            IN  IF x.t = "null" THEN Null
                ELSE IF e.fmt = "%.2f" THEN StrV(FormatF2(Milli(x)))
                ELSE StrV(FormatD(x.v))
      [] e.op = "regexp_replace" ->
            LET x == Eval(e.arg, row)
                Keep(ch) == ch \notin e.class
            IN  IF x.t = "null" THEN Null ELSE StrV(SelectSeq(x.v, Keep))

(* __col_sql taken alone: a (name, type) pair and a value of that type are  *)
(* drawn in the initial state; one action builds the rule and evaluates it. *)

MaxMilli == 1100
MaxInt   == 120

ColTypes == {"double", "bigint", "int", "boolean", "string", "struct<a:int>"}

EncTexts == {<<>>, <<"x">>, <<"E", "U", ";", "1">>, <<"a", "|", "b", ":", "c">>, <<" ">>}

ValuesOf(coltype) ==
    {Null} \cup
    CASE coltype = "double" -> {DoubleV(m) : m \in (0 - MaxMilli)..MaxMilli}
      [] coltype \in {"bigint", "int"} -> {IntV(n) : n \in (0 - MaxInt)..MaxInt}
      [] coltype = "boolean" -> {BoolV(TRUE), BoolV(FALSE)}
      [] coltype = "string" -> {StrV(s) : s \in EncTexts}
      [] OTHER -> {}

EncInputs ==
    UNION {[name : {N_a, N_agb}, type : {ty}, value : ValuesOf(ty)] : ty \in ColTypes}

EncParked == e_pc = "parked" /\ e_in = <<>> /\ e_rule = <<>> /\ e_token = <<>>

EncInit ==
    /\ e_pc = "input"
    /\ e_in \in EncInputs
    /\ e_rule = <<>>
    /\ e_token = <<>>

EncodeCall ==
    /\ e_pc = "input"
    /\ e_rule' = ColSql(e_in.name, e_in.type)
    /\ IF Raises(e_rule')
       THEN e_pc' = "raised" /\ e_token' = <<>>
       ELSE e_pc' = "done" /\ e_token' = Eval(e_rule', e_in.value)
    /\ UNCHANGED e_in

-----------------------------------------------------------------------------
(* HiveCliHook.run_cli, lines 300-350, and the hive subprocess it drives.  *)

MaxOut == 3
MaxRunOut == 1

NL       == "\n"
OutBytes == {"x", NL}
ExitCodes == {0, 2}

NoFile == [exists |-> FALSE, content |-> <<>>]
NoResult == [kind |-> "none", value |-> <<>>, exc |-> ""]

\* lines 318-319
WithSchema(hql, schema) ==
    IF schema # "None" THEN <<[stmt |-> "use", schema |-> schema]>> \o hql ELSE hql

\* HiveCliHook._prepare_cli_cmd, lines 267-274, with hive_cli_params = ''
PrepareCliCmd == <<"hive">>

\* HiveCliHook._prepare_hiveconf, lines 291-298: [] for an empty or missing
\* dict; otherwise the call names as_flattened_list and itertools, neither
\* of which the module defines or imports
PrepareHiveconf(d) ==
    IF d = EmptyDict THEN [op |-> "list", items |-> <<>>] ELSE Raise("NameError")

\* leaving the `with NamedTemporaryFile(...)` block of line 321, by return
\* or by an exception: the file is closed, which deletes it
WithExitOnReturnOnly(f, how) ==
    IF how = "return" THEN [f EXCEPT !.exists = FALSE] ELSE f

WithExit(f, how) == [f EXCEPT !.exists = FALSE]

\* str.strip() on a line of output
RECURSIVE LStrip(_)
LStrip(s) == IF s # <<>> /\ Head(s) \in {NL, " "} THEN LStrip(Tail(s)) ELSE s

RECURSIVE RStrip(_)
RStrip(s) ==
    IF s # <<>> /\ s[Len(s)] \in {NL, " "} THEN RStrip(SubSeq(s, 1, Len(s) - 1)) ELSE s

Strip(s) == RStrip(LStrip(s))

\* sp.stdout.readline(): up to and including the first newline; the rest of
\* the stream when the writer has closed it without a final newline
ReadableLine(p, closed) == Find(p, <<NL>>) # 0 \/ (closed /\ p # <<>>)
LineLen(p) == IF Find(p, <<NL>>) # 0 THEN Find(p, <<NL>>) ELSE Len(p)

\* a return that trims the output
RunCliReturnStripped(out, code) == [output |-> Strip(out)]

\* line 350: what run_cli hands back
RunCliReturn(out, code) == [output |-> out]

\* lines 346-349
RunCliErrors(hql, code) ==
    IF code # 0
    THEN <<[msg |-> "Problem when running:"], [msg |-> hql],
           [msg |-> "Command returned", code |-> code]>>
    ELSE <<>>

CliIdle ==
    /\ rc_pc = "idle"
    /\ rc_args = <<>>
    /\ tmpfile = NoFile
    /\ proc = "none"
    /\ returncode = -1          \* Popen.returncode is None until the wait
    /\ pipe = <<>>
    /\ emitted = <<>>
    /\ stdout = <<>>
    /\ infoLog = <<>>
    /\ rcErrLog = <<>>
    /\ rc_result = NoResult

\* control leaves run_cli with exception exc
RcRaise(exc) ==
    /\ rc_pc' = "raised"
    /\ rc_result' = [kind |-> "raise", value |-> <<>>, exc |-> exc]
    /\ tmpfile' = WithExit(tmpfile, "raise")

\* lines 318-321: entering run_cli up to the creation of the temporary file
RcStart(hql, schema, verbose, hive_conf) ==
    /\ rc_pc = "idle"
    /\ rc_args' = [hql |-> WithSchema(hql, schema), schema |-> schema,
                   verbose |-> verbose, hive_conf |-> hive_conf]
    /\ \E created \in BOOLEAN :
          IF created
          THEN /\ tmpfile' = [exists |-> TRUE, content |-> <<>>]
               /\ rc_pc' = "opened"
               /\ rc_result' = NoResult
          ELSE /\ tmpfile' = NoFile
               /\ rc_pc' = "raised"
               /\ rc_result' = [kind |-> "raise", value |-> <<>>, exc |-> "OSError"]
    /\ UNCHANGED <<proc, returncode, pipe, emitted, stdout, infoLog, rcErrLog>>

\* lines 322-323: f.write(hql.encode('UTF-8')); f.flush()
RcWrite ==
    /\ rc_pc = "opened"
    /\ \E ok \in BOOLEAN :
          IF ok
          THEN /\ tmpfile' = [tmpfile EXCEPT !.content = rc_args.hql]
               /\ rc_pc' = "written"
               /\ UNCHANGED rc_result
          ELSE RcRaise("IOError")
    /\ UNCHANGED <<rc_args, proc, returncode, pipe, emitted, stdout, infoLog, rcErrLog>>
    /\ UNCHANGED <<pipeVars, grpVars, encVars>>

\* lines 324-337: build the command, log it, spawn the subprocess
RcSpawn ==
    /\ rc_pc = "written"
    /\ IF Raises(PrepareHiveconf(rc_args.hive_conf))
       THEN /\ RcRaise("NameError")
            /\ UNCHANGED <<proc, infoLog, spawns>>
       ELSE LET hive_cmd == PrepareCliCmd \o PrepareHiveconf(rc_args.hive_conf).items
                              \o <<"-f", "f.name">>
                logged == IF rc_args.verbose THEN <<hive_cmd>> ELSE <<>>
            IN  /\ infoLog' = infoLog \o logged
                /\ \E ok \in BOOLEAN :
                      IF ok
                      THEN /\ proc' = "running"
                           /\ spawns' = spawns + 1
                           /\ rc_pc' = "draining"
                           /\ UNCHANGED <<rc_result, tmpfile>>
                      ELSE /\ RcRaise("OSError")
                           /\ UNCHANGED <<proc, spawns>>
    /\ UNCHANGED <<rc_args, returncode, pipe, emitted, stdout, rcErrLog>>
    /\ UNCHANGED <<pc, job, nsgroups, metaCalls, output, raised, errLog, ctor_args,
                   exits, run_ret>>
    /\ UNCHANGED <<grpVars, encVars>>

\* lines 338-344: one turn of the read loop that gets a line
RcReadLine ==
    /\ rc_pc = "draining"
    /\ ReadableLine(pipe, proc \in {"closed", "exited"})
    /\ LET line == SubSeq(pipe, 1, LineLen(pipe))
       IN  /\ pipe' = SubSeq(pipe, LineLen(pipe) + 1, Len(pipe))
           /\ \E decodes \in BOOLEAN :
                 IF decodes
                 THEN /\ stdout' = stdout \o line
                      /\ infoLog' = IF rc_args.verbose
                                    THEN Append(infoLog, Strip(line)) ELSE infoLog
                      /\ UNCHANGED <<rc_pc, rc_result, tmpfile>>
                 ELSE /\ RcRaise("UnicodeDecodeError")
                      /\ UNCHANGED <<stdout, infoLog>>
    /\ UNCHANGED <<rc_args, proc, returncode, emitted, rcErrLog>>
    /\ UNCHANGED <<pipeVars, grpVars, encVars>>

\* lines 339-341: readline returns '' at end of file, the loop breaks
RcReadEOF ==
    /\ rc_pc = "draining"
    /\ pipe = <<>>
    /\ proc \in {"closed", "exited"}
    /\ rc_pc' = "waiting"
    /\ UNCHANGED <<rc_args, tmpfile, proc, returncode, pipe, emitted, stdout, infoLog,
                   rcErrLog, rc_result>>
    /\ UNCHANGED <<pipeVars, grpVars, encVars>>

\* a read loop followed by no sp.wait(): returns at end of file
WaitDoneNoWait(p) == TRUE

\* line 345: sp.wait() returns once the subprocess has exited
WaitDone(p) == p = "exited"

\* lines 345-350: wait, log a non-zero exit code, return the output
RcWaitReturn ==
    /\ rc_pc = "waiting"
    /\ WaitDone(proc)
    /\ rcErrLog' = RunCliErrors(rc_args.hql, returncode)
    /\ rc_result' = [kind |-> "return", value |-> RunCliReturn(stdout, returncode),
                     exc |-> ""]
    /\ tmpfile' = WithExit(tmpfile, "return")
    /\ rc_pc' = "returned"
    /\ UNCHANGED <<rc_args, proc, returncode, pipe, emitted, stdout, infoLog>>
    /\ UNCHANGED <<pipeVars, grpVars, encVars>>

(* The hive subprocess: writes to the pipe (stdout and stderr combined),   *)
(* may close it early, and exits with a code.                              *)

\* how much output a subprocess writes: a direct call is followed up to
\* MaxOut bytes, a call made by run() up to MaxRunOut
OutCap == IF pc = "cli" THEN MaxOut ELSE MaxRunOut

ProcEmit ==
    /\ proc = "running"
    /\ Len(emitted) < OutCap
    /\ \E b \in OutBytes :
          /\ pipe' = Append(pipe, b)
          /\ emitted' = Append(emitted, b)
    /\ UNCHANGED <<rc_pc, rc_args, tmpfile, proc, returncode, stdout, infoLog, rcErrLog,
                   rc_result>>
    /\ UNCHANGED <<pipeVars, grpVars, encVars>>

ProcCloseStdout ==
    /\ proc = "running"
    /\ proc' = "closed"
    /\ UNCHANGED <<rc_pc, rc_args, tmpfile, returncode, pipe, emitted, stdout, infoLog,
                   rcErrLog, rc_result>>
    /\ UNCHANGED <<pipeVars, grpVars, encVars>>

ProcExit ==
    /\ proc \in {"running", "closed"}
    /\ proc' = "exited"
    /\ \E code \in ExitCodes : returncode' = code
    /\ UNCHANGED <<rc_pc, rc_args, tmpfile, pipe, emitted, stdout, infoLog, rcErrLog,
                   rc_result>>
    /\ UNCHANGED <<pipeVars, grpVars, encVars>>

-----------------------------------------------------------------------------
(* HiveToVWInput: __init__, create_dest_table, gen_sql, run.               *)

MaxIdLen == 3

IdChars == {"a", "."}
Tmp     == <<"t", "m", "p">>

NoJob    == [constructed |-> FALSE]
Unset    == [unset |-> TRUE]
Unbound  == [unbound |-> TRUE]
IsBound(x) == "unbound" \notin DOMAIN x

\* the table schemas the metastore may hand back
Schemas ==
    { <<[name |-> N_y, type |-> "int"], [name |-> N_t, type |-> "string"],
        [name |-> N_a, type |-> "double"], [name |-> N_agb, type |-> "string"]>>,
      <<[name |-> N_y, type |-> "int"], [name |-> N_t, type |-> "string"],
        [name |-> N_a, type |-> "struct<a:int>"]>>,
      <<[name |-> N_y, type |-> "bigint"], [name |-> N_agb, type |-> "boolean"]>> }

CtorInputs ==
    [src_table : SeqsUpTo(IdChars, MaxIdLen), dst_table : SeqsUpTo(IdChars, MaxIdLen),
     label_column : {N_y}, tag_column : {N_t}, limit : {"None"}, filter_sql : {"None"},
     excludes : {<<>>, <<N_a>>}, custom_namespaces : {(N_agb :> NS_fam)}]

\* a check that lets identifiers with more than two parts through
SrcTableOkAtLeastTwo(src_table) == Len(Split(src_table, Dot)) >= 2

\* line 117
SrcTableOk(src_table) == Len(Split(src_table, Dot)) = 2

\* line 121
DstTableOk(dst_table) == Len(Split(dst_table, Dot)) = 1

\* lines 120-134: the fields of the new object
JobFields(a) ==
    [constructed |-> TRUE,
     src_db |-> Split(a.src_table, Dot)[1],
     src_table_name |-> Split(a.src_table, Dot)[2],
     dst_db |-> Tmp,
     dst_table_name |-> a.dst_table,
     src_table |-> a.src_table,
     dst_table |-> a.dst_table,
     filter_sql |-> a.filter_sql,
     excludes |-> a.excludes,
     label_column |-> a.label_column,
     limit |-> a.limit,
     tag_column |-> a.tag_column,
     custom_namespaces |-> a.custom_namespaces]

\* __col_ns, lines 184-192: the encoding of every column of every namespace
\* (a dict is iterated in no specified order: the blocks are kept as a map)
ColNs(namespaces) ==
    IF \E ns \in DOMAIN namespaces : \E i \in 1..Len(namespaces[ns]) :
          Raises(ColSql(namespaces[ns][i].name, namespaces[ns][i].type))
    THEN NotImplementedError
    ELSE [op |-> "blocks",
          blocks |-> [ns \in DOMAIN namespaces |->
                        [i \in 1..Len(namespaces[ns]) |->
                            ColSql(namespaces[ns][i].name, namespaces[ns][i].type)]]]

\* __assemble_sql and gen_sql, lines 194-245
GenSql(j, groups) ==
    IF Raises(ColNs(groups)) THEN NotImplementedError
    ELSE [op |-> "sql", stmt |-> "insert_overwrite", dst_db |-> j.dst_db, dst_table |-> j.dst_table_name,
          label |-> j.label_column, tag_col |-> j.tag_column, cols |-> ColNs(groups).blocks,
          table_name |-> j.src_table, sample |-> j.filter_sql, limit |-> j.limit]

\* create_dest_table, lines 211-218
DestTableSql(j) == [stmt |-> "drop_create", ns |-> j.dst_db, table |-> j.dst_table_name]

\* run, lines 247-255: the method has no return statement
RunReturnValue(codes, out) == [value |-> "None"]

PipeStart ==
    /\ pc = "start"
    /\ job = NoJob
    /\ nsgroups = Unset
    /\ metaCalls = 0
    /\ spawns = 0
    /\ output = Unbound
    /\ raised = "none"
    /\ errLog = <<>>
    /\ ctor_args = <<>>
    /\ exits = <<>>
    /\ run_ret = Unset

\* __init__, lines 117-140: validate the identifiers, assign the fields,
\* build the two hooks (no connection is opened yet)
Construct ==
    /\ pc = "start"
    /\ \E a \in CtorInputs :
          /\ ctor_args' = a
          /\ IF ~SrcTableOk(a.src_table) \/ ~DstTableOk(a.dst_table)
             THEN /\ raised' = "TypeError"
                  /\ pc' = "ctor_raised"
                  /\ UNCHANGED job
             ELSE /\ job' = JobFields(a)
                  /\ pc' = "ctor_ns_groups"
                  /\ UNCHANGED raised
    /\ UNCHANGED <<nsgroups, metaCalls, spawns, output, errLog, exits, run_ret>>
    /\ UNCHANGED <<cliVars, grpVars, encVars>>

\* __init__, line 143, and get_ns_groups, lines 150-167: fetch the schema
\* from the metastore and group its columns
FetchAndGroup ==
    /\ pc = "ctor_ns_groups"
    /\ metaCalls' = metaCalls + 1
    /\ \E answered \in BOOLEAN :
          IF answered
          THEN \E cols \in Schemas :
                  /\ nsgroups' = GetNsGroups(cols, job.excludes, job.label_column,
                                             job.tag_column, job.custom_namespaces)
                  /\ pc' = "constructed"
                  /\ UNCHANGED raised
          ELSE /\ raised' = "MetastoreError"
               /\ pc' = "ctor_raised"
               /\ UNCHANGED nsgroups
    /\ UNCHANGED <<job, spawns, output, errLog, ctor_args, exits, run_ret>>
    /\ UNCHANGED <<cliVars, grpVars, encVars>>

\* run, line 249, into create_dest_table, lines 211-221: call run_cli(sql)
RunCreateDest ==
    /\ pc = "constructed"
    /\ RcStart(<<DestTableSql(job)>>, "None", TRUE, EmptyDict)
    /\ pc' = "create_dest_table"
    /\ UNCHANGED <<job, nsgroups, metaCalls, spawns, output, raised, errLog, ctor_args,
                   exits, run_ret>>
    /\ UNCHANGED <<grpVars, encVars>>

\* line 221: run_cli returned, `output` is assigned, create_dest_table
\* returns; nothing of the finished call is kept
CreateDestReturn ==
    /\ pc = "create_dest_table"
    /\ rc_pc = "returned"
    /\ output' = rc_result.value
    /\ exits' = Append(exits, returncode)
    /\ pc' = "gen_sql"
    /\ rc_pc' = "idle"
    /\ rc_args' = <<>>
    /\ tmpfile' = NoFile
    /\ proc' = "none"
    /\ returncode' = -1
    /\ pipe' = <<>>
    /\ emitted' = <<>>
    /\ stdout' = <<>>
    /\ infoLog' = <<>>
    /\ rcErrLog' = <<>>
    /\ rc_result' = NoResult
    /\ UNCHANGED <<job, nsgroups, metaCalls, spawns, raised, errLog, ctor_args, run_ret>>
    /\ UNCHANGED <<grpVars, encVars>>

\* lines 222-223: run_cli raised; the handler logs the local `output`, which
\* line 221 never assigned: reading it raises UnboundLocalError
CreateDestExcept ==
    /\ pc = "create_dest_table"
    /\ rc_pc = "raised"
    /\ IF IsBound(output)
       THEN /\ errLog' = Append(errLog, output)
            /\ pc' = "gen_sql"
            /\ UNCHANGED raised
       ELSE /\ raised' = "UnboundLocalError"
            /\ pc' = "run_raised"
            /\ UNCHANGED errLog
    /\ UNCHANGED <<job, nsgroups, metaCalls, spawns, output, ctor_args, exits, run_ret>>
    /\ UNCHANGED <<cliVars, grpVars, encVars>>

\* run, lines 250-252: generate the query, then call run_cli(finalsql)
GenSqlAndRun ==
    /\ pc = "gen_sql"
    /\ IF Raises(GenSql(job, nsgroups))
       THEN /\ raised' = "NotImplementedError"
            /\ pc' = "run_raised"
            /\ UNCHANGED cliVars
       ELSE /\ RcStart(<<GenSql(job, nsgroups)>>, "None", TRUE, EmptyDict)
            /\ pc' = "run_cli"
            /\ UNCHANGED raised
    /\ UNCHANGED <<job, nsgroups, metaCalls, spawns, output, errLog, ctor_args, exits,
                   run_ret>>
    /\ UNCHANGED <<grpVars, encVars>>

\* run, lines 252-255: run_cli returned; log the output, look the
\* destination up in the metastore, return
RunReturn ==
    /\ pc = "run_cli"
    /\ rc_pc = "returned"
    /\ output' = rc_result.value
    /\ exits' = Append(exits, returncode)
    /\ metaCalls' = metaCalls + 1
    /\ \E answered \in BOOLEAN :
          IF answered
          THEN /\ pc' = "done"
               /\ run_ret' = RunReturnValue(exits', output')
               /\ UNCHANGED raised
          ELSE /\ pc' = "run_raised"
               /\ raised' = "MetastoreError"
               /\ UNCHANGED run_ret
    /\ UNCHANGED <<job, nsgroups, spawns, errLog, ctor_args>>
    /\ UNCHANGED <<cliVars, grpVars, encVars>>

\* run, line 252: run_cli raised; nothing in run catches it
RunExcept ==
    /\ pc = "run_cli"
    /\ rc_pc = "raised"
    /\ raised' = rc_result.exc
    /\ pc' = "run_raised"
    /\ UNCHANGED <<job, nsgroups, metaCalls, spawns, output, errLog, ctor_args, exits,
                   run_ret>>
    /\ UNCHANGED <<cliVars, grpVars, encVars>>

-----------------------------------------------------------------------------
(* run_cli called directly on a HiveCliHook, as in its docstring *)

CliQueries  == {<<[stmt |-> "user", text |-> "USE mydb;"]>>}
CliSchemas  == {"None", "mydb"}
CliHiveConf == {EmptyDict, ("hive.exec.dynamic.partition" :> "true")}

PipeParked ==
    /\ pc = "cli"
    /\ job = NoJob
    /\ nsgroups = Unset
    /\ metaCalls = 0
    /\ spawns = 0
    /\ output = Unbound
    /\ raised = "none"
    /\ errLog = <<>>
    /\ ctor_args = <<>>
    /\ exits = <<>>
    /\ run_ret = Unset

CliCall ==
    /\ pc = "cli"
    /\ \E hql \in CliQueries, schema \in CliSchemas, verbose \in BOOLEAN,
          hive_conf \in CliHiveConf :
          RcStart(hql, schema, verbose, hive_conf)
    /\ UNCHANGED <<pipeVars, grpVars, encVars>>

-----------------------------------------------------------------------------
(* Specifications *)

\* a job is constructed and run
Init == PipeStart /\ CliIdle /\ GrpParked /\ EncParked

Next ==
    \/ Construct
    \/ FetchAndGroup
    \/ RunCreateDest
    \/ CreateDestReturn
    \/ CreateDestExcept
    \/ GenSqlAndRun
    \/ RunReturn
    \/ RunExcept
    \/ RcWrite
    \/ RcSpawn
    \/ RcReadLine
    \/ RcReadEOF
    \/ RcWaitReturn
    \/ ProcEmit
    \/ ProcCloseStdout
    \/ ProcExit

Spec == Init /\ [][Next]_vars

\* one direct call of run_cli
InitCli == PipeParked /\ CliIdle /\ GrpParked /\ EncParked

NextCli ==
    \/ CliCall
    \/ RcWrite
    \/ RcSpawn
    \/ RcReadLine
    \/ RcReadEOF
    \/ RcWaitReturn
    \/ ProcEmit
    \/ ProcCloseStdout
    \/ ProcExit

SpecCli == InitCli /\ [][NextCli]_vars

\* the same, the caller's thread being scheduled whenever it can run and
\* the subprocess exiting eventually
LiveCli ==
    /\ InitCli
    /\ [][NextCli]_vars
    /\ WF_vars(RcReadLine)
    /\ WF_vars(RcReadEOF)
    /\ WF_vars(RcWaitReturn)
    /\ WF_vars(ProcExit)

\* get_ns_groups on drawn inputs
InitGroup == PipeParked /\ CliIdle /\ GrpInit /\ EncParked
NextGroup == GroupCall /\ UNCHANGED <<pipeVars, cliVars, encVars>>
SpecGroup == InitGroup /\ [][NextGroup]_vars

\* __col_sql on drawn inputs
InitEnc == PipeParked /\ CliIdle /\ GrpParked /\ EncInit
NextEnc == EncodeCall /\ UNCHANGED <<pipeVars, cliVars, grpVars>>
SpecEnc == InitEnc /\ [][NextEnc]_vars

-----------------------------------------------------------------------------
(* Properties *)

CountIn(x, l) == Cardinality({i \in 1..Len(l) : l[i] = x})

\* occurrences of column c in the namespaces `keys` of groups
RECURSIVE OccIn(_, _, _)
OccIn(c, groups, keys) ==
    IF keys = {} THEN 0
    ELSE LET k == CHOOSE x \in keys : TRUE
         IN  CountIn(c, groups[k]) + OccIn(c, groups, keys \ {k})

GOmitted(n) == n = g_in.label \/ n = g_in.tag \/ InList(n, g_in.excludes)

\* C1: the map get_ns_groups returns holds no column named as label, tag or
\* excluded (override or not), and holds every other column of the schema
\* exactly as many times as the schema lists it, over all namespaces
\* together: none twice, none dropped, none invented.
C1_EachColumnOnce ==
    g_pc = "done" =>
        \A c \in GroupCols :
            OccIn(c, g_out, DOMAIN g_out)
                = IF GOmitted(c.name) THEN 0 ELSE CountIn(c, g_in.cols)

\* a label column that has an override is left out, and two further
\* columns share one namespace
C1_Witness ==
    /\ g_pc = "done"
    /\ Len(g_in.cols) = 2
    /\ g_in.cols[1].name = N_a
    /\ g_in.cols[2].name = N_ab
    /\ g_in.label = N_agb
    /\ N_agb \in DOMAIN g_in.custom
    /\ g_in.excludes = <<>>
    /\ DOMAIN g_out = {Other}
    /\ Len(g_out[Other]) = 2

\* the namespace the precedence rules give a column that is not left out
ExpectedNs(n) ==
    IF n \in DOMAIN g_in.custom THEN g_in.custom[n]
    ELSE IF Len(Split(n, Dunder)) > 2 THEN Split(n, Dunder)[2]
    ELSE Other

\* C2: a column that is not label, tag or excluded is placed in its
\* override's namespace when it has one, even if its name has more than two
\* '__'-parts; in the namespace named by the second part when it has no
\* override; in 'other' when neither applies; and in no other namespace.
C2_OverrideWins ==
    g_pc = "done" =>
        \A i \in 1..Len(g_in.cols) :
            LET c == g_in.cols[i]
            IN  ~GOmitted(c.name) =>
                    /\ ExpectedNs(c.name) \in DOMAIN g_out
                    /\ InList(c, g_out[ExpectedNs(c.name)])
                    /\ \A k \in DOMAIN g_out :
                          InList(c, g_out[k]) => k = ExpectedNs(c.name)

\* a__g__b has the override 'fam': it is under 'fam', and 'g' does not exist
C2_Witness ==
    /\ g_pc = "done"
    /\ g_in.cols = <<[name |-> N_agb, type |-> "int"]>>
    /\ g_in.label = N_y
    /\ g_in.excludes = <<>>
    /\ N_agb \in DOMAIN g_in.custom
    /\ g_in.custom[N_agb] = NS_fam
    /\ DOMAIN g_out = {NS_fam}
    /\ g_out[NS_fam] = <<[name |-> N_agb, type |-> "int"]>>

\* C3: once control has left run_cli, by return or by any exception, the
\* temporary file does not exist.
C3_ArtifactReleased ==
    rc_pc \in {"returned", "raised"} => ~tmpfile.exists

\* the query was written to the file, the spawn failed, the file is gone
C3_Witness ==
    /\ rc_pc = "raised"
    /\ rc_result.exc = "OSError"
    /\ tmpfile.content = rc_args.hql
    /\ tmpfile.content # <<>>
    /\ ~tmpfile.exists
    /\ proc = "none"

Supported == {"double", "bigint", "int", "boolean", "string"}

Constructed == pc \in {"constructed", "create_dest_table", "gen_sql", "run_cli", "done",
                       "run_raised"}

HasUnsupported(groups) ==
    \E ns \in DOMAIN groups : \E i \in 1..Len(groups[ns]) :
        groups[ns][i].type \notin Supported

\* C4: a job whose grouped columns include one of a type with no encoding
\* rule never spawns a subprocess (neither for the drop/create statement
\* nor for the insert), and its run ends with the unsupported-type error.
C4_AbortsBeforeAnySpawn ==
    (Constructed /\ HasUnsupported(nsgroups)) =>
        /\ spawns = 0
        /\ (pc = "run_raised" => raised = "NotImplementedError")

C6_FailureSurfaced ==
    (pc = "done" /\ \E i \in 1..Len(exits) : exits[i] # 0) =>
        run_ret # [value |-> "None"]

DotCount(s) == Cardinality({i \in 1..Len(s) : s[i] = "."})

Malformed(a) == DotCount(a.src_table) # 1 \/ DotCount(a.dst_table) # 0

\* C7: a constructor call whose source identifier does not have exactly
\* two '.'-parts, or whose destination identifier contains a '.', ends in
\* TypeError with no object, no metastore call, no grouping, no run_cli
\* call and no subprocess; any other call yields a job whose destination
\* database is 'tmp'.
C7_EagerConfigurationError ==
    pc \notin {"start", "cli"} =>
        IF Malformed(ctor_args)
        THEN /\ pc = "ctor_raised"
             /\ raised = "TypeError"
             /\ job = NoJob
             /\ metaCalls = 0
             /\ nsgroups = Unset
             /\ rc_pc = "idle"
             /\ spawns = 0
        ELSE /\ job.constructed
             /\ job.dst_db = Tmp
             /\ raised # "TypeError"

\* a well-formed source with a destination that carries a qualifier
C7_Witness ==
    /\ pc = "ctor_raised"
    /\ raised = "TypeError"
    /\ ctor_args.src_table = <<"a", ".">>
    /\ ctor_args.dst_table = <<".", "a">>
    /\ metaCalls = 0

\* C8: once the handler of create_dest_table has dealt with a failed
\* run_cli call, it has logged the failure and raised nothing itself.
C8_HandlerLogsFailure ==
    (rc_pc = "raised" /\ pc \notin {"create_dest_table", "cli"}
        /\ rc_args.hql[1].stmt = "drop_create") =>
        /\ raised = "none"
        /\ errLog # <<>>

DigitVal(ch) == CHOOSE d \in 0..9 : DigitChar(d) = ch
IsDigit(ch) == \E d \in 0..9 : DigitChar(d) = ch

RECURSIVE ParseNat(_)
ParseNat(s) ==
    IF s = <<>> THEN 0 ELSE 10 * ParseNat(SubSeq(s, 1, Len(s) - 1)) + DigitVal(s[Len(s)])

AllDigits(s) == s # <<>> /\ \A i \in 1..Len(s) : IsDigit(s[i])

Unsigned(s) == IF s # <<>> /\ Head(s) = "-" THEN Tail(s) ELSE s
SignOf(s)   == IF s # <<>> /\ Head(s) = "-" THEN -1 ELSE 1

\* text is the decimal integer n
IsDecimalOf(text, n) ==
    /\ AllDigits(Unsigned(text))
    /\ SignOf(text) * ParseNat(Unsigned(text)) = n

\* text is digits, a point and two digits, within half a hundredth of m/1000
IsTwoDecimalsOf(text, m) ==
    LET u == Unsigned(text)
        k == Len(u)
    IN  /\ k >= 4
        /\ u[k - 2] = "."
        /\ AllDigits(SubSeq(u, 1, k - 3))
        /\ AllDigits(SubSeq(u, k - 1, k))
        /\ LET hundredths == ParseNat(SubSeq(u, 1, k - 3)) * 100
                                 + ParseNat(SubSeq(u, k - 1, k))
           IN  Abs(SignOf(text) * hundredths * 10 - m) <= 5

\* the value is NULL, 0.0, 0 or false
IsZeroOrNull(val) ==
    \/ val = Null
    \/ val.t \in {"double", "int"} /\ val.v = 0
    \/ val.t = "boolean" /\ val.v = FALSE

\* tok is '<name>:<formatted value>' and exactly one space after it
IsFeatureToken(tok, name, val) ==
    LET n == Len(name)
        k == Len(tok)
        mid == SubSeq(tok, n + 2, k - 1)
    IN  /\ k >= n + 3
        /\ SubSeq(tok, 1, n) = name
        /\ tok[n + 1] = ":"
        /\ tok[k] = " "
        /\ ~InList(" ", mid)
        /\ CASE val.t = "double" -> IsTwoDecimalsOf(mid, val.v)
             [] val.t = "int" -> IsDecimalOf(mid, val.v)
             [] val.t = "boolean" -> mid = <<"1">>
             [] OTHER -> FALSE

\* C9: for a double, int, bigint or boolean column, the rule __col_sql
\* builds evaluates to the empty string on NULL, 0.0, 0 and false, and on
\* every other value to the column name, a colon, the value formatted
\* (two decimals, decimal integer, 1) and exactly one space.
C9_SparseToken ==
    (e_pc = "done" /\ e_in.type \in {"double", "bigint", "int", "boolean"}) =>
        IF IsZeroOrNull(e_in.value)
        THEN e_token = StrV(<<>>)
        ELSE e_token.t = "string" /\ IsFeatureToken(e_token.v, e_in.name, e_in.value)

\* a double that is not zero and prints as 0.00
C9_Witness ==
    /\ e_pc = "done"
    /\ e_in = [name |-> N_a, type |-> "double", value |-> DoubleV(-4)]
    /\ e_token = StrV(<<"a", ":", "-", "0", ".", "0", "0", " ">>)

====
